---------------------------- MODULE Spec2Model ----------------------------
(***************************************************************************)
(* Model of src/dash1.py, a Streamlit dashboard script over the obesity    *)
(* data set.  The script is re-executed top to bottom on every user        *)
(* interaction; load_data is memoised by st.cache_data; the chart          *)
(* functions read (and, for create_grouped_bar, write) the module-level    *)
(* table df.                                                               *)
(*                                                                         *)
(* Two specifications:                                                     *)
(*   Spec   - script runs: load (line 21), then the layout statements of   *)
(*            lines 272-330 in order, re-runs, changes of the CSV file.    *)
(*   SpecFn - the chart functions called in any order on a loaded table.   *)
(***************************************************************************)
EXTENDS Integers, Sequences, FiniteSets, TLC

VARIABLES
    file,      \* the CSV file on disk: a file state (see Files)
    cache,     \* st.cache_data entry of load_data: NoTable or the table stored
    reads,     \* number of completed pd.read_csv reads of the file
    firstLoaded, \* the table the first successful load_data() of the session returned
    runs,      \* number of script executions started
    df,        \* module-level table of the current run (NoTable before line 21)
    pc,        \* position in the script: 0 = line 21, i = Layout[i] next, Len+1 = end
    rendered,  \* names of the layout elements drawn so far in this run
    error,     \* "none", or the exception that ended this run
    call,      \* name of the chart function called last ("" if none)
    result     \* what that call returned: [exc, ret]

vars == <<file, cache, reads, firstLoaded, runs, df, pc, rendered, error, call, result>>

---------------------------------------------------------------------------
(* Bounds *)

\* rows of a table handed to the chart functions (SpecFn)
MaxRows == 2
\* rows of the CSV file of a script run (Spec)
MaxFileRows == 1
\* script executions in a session (Spec)
MaxRuns == 2

---------------------------------------------------------------------------
(* Cells.  A pandas cell is a string (object dtype), a number or NaN.      *)
(* Numbers are kept as exact fractions n/d so that means are exact.        *)

S(x) == [t |-> "str", s |-> x, n |-> 0, d |-> 1]
Num(x) == [t |-> "num", s |-> "", n |-> x, d |-> 1]
NaN == [t |-> "nan", s |-> "", n |-> 0, d |-> 1]

RECURSIVE Gcd(_, _)
Gcd(a, b) == IF b = 0 THEN a ELSE Gcd(b, a % b)

\* the number a/b (b > 0) in lowest terms
Frac(a, b) == [t |-> "num", s |-> "", n |-> a \div Gcd(a, b), d |-> b \div Gcd(a, b)]

isna(c) == c.t = "nan"

\* Python's ordering of str values (code point order) on the strings of the model
Lex == <<"Female", "Frequently", "Male", "Normal_Weight", "Obesity_Type_I", "no", "yes">>

StrRank(s) == CHOOSE i \in 1..Len(Lex) : Lex[i] = s

\* a < b for two cells of one column (numbers before strings, NaN last)
CellLess(a, b) ==
    IF a.t = "num" /\ b.t = "num" THEN a.n * b.d < b.n * a.d
    ELSE IF a.t = "str" /\ b.t = "str" THEN StrRank(a.s) < StrRank(b.s)
    ELSE IF a.t = b.t THEN FALSE
    ELSE a.t = "num" \/ (a.t = "str" /\ b.t = "nan")

\* ascending sequence of the cells of a finite set
RECURSIVE SortCells(_)
SortCells(cs) ==
    IF cs = {} THEN <<>>
    ELSE LET m == CHOOSE x \in cs : \A y \in cs \ {x} : CellLess(x, y)
         IN  <<m>> \o SortCells(cs \ {m})

RECURSIVE SumSeq(_)
SumSeq(q) == IF q = <<>> THEN 0 ELSE Head(q) + SumSeq(Tail(q))

Range(q) == {q[i] : i \in 1..Len(q)}

---------------------------------------------------------------------------
(* Tables (pandas DataFrame): the header and the rows, a row being a       *)
(* function from the column names of the header to cells.                  *)

\* no table: df before line 21 has run, the cache before it is filled
NoTable == [columns |-> <<>>, rows |-> <<>>]

\* the columns the script names
ExpectedColumns ==
    <<"Gender", "Age", "Height", "Weight", "family_history_with_overweight",
      "SMOKE", "CH2O", "FAF", "CALC", "NObeyesdad">>

HasCol(t, c) == c \in Range(t.columns)

\* df[c]: the column as a sequence of cells
Col(t, c) == [i \in 1..Len(t.rows) |-> t.rows[i][c]]

\* dtype pandas gives a non-empty column: object if it holds a string,
\* else float64 if it holds a NaN, else int64
Dtype(series) ==
    IF \E i \in 1..Len(series) : series[i].t = "str" THEN "object"
    ELSE IF \E i \in 1..Len(series) : series[i].t = "nan" THEN "float64"
    ELSE "int64"

IsNumber(dtype) == dtype \in {"int64", "float64"}

\* df.select_dtypes(include="number").columns
SelectInclude(t) == SelectSeq(t.columns, LAMBDA c : IsNumber(Dtype(Col(t, c))))

\* df.select_dtypes(exclude="number").columns
SelectExclude(t) == SelectSeq(t.columns, LAMBDA c : ~IsNumber(Dtype(Col(t, c))))

\* Index.drop(target_column, errors='ignore')
Drop(cols, c) == SelectSeq(cols, LAMBDA x : x # c)

---------------------------------------------------------------------------
(* Aggregations (pandas) *)

\* Series.unique(): the distinct cells in order of first appearance, NaN included
RECURSIVE unique(_)
unique(series) ==
    IF series = <<>> THEN <<>>
    ELSE LET n == Len(series)
             front == unique(SubSeq(series, 1, n - 1))
         IN  IF series[n] \in Range(front) THEN front ELSE Append(front, series[n])

\* number of cells of the series equal to v
CountOf(series, v) == Cardinality({i \in 1..Len(series) : series[i] = v})

\* Series.dropna()
dropna(series) == SelectSeq(series, LAMBDA c : ~isna(c))

\* stable sort of [value, count] rows by count, descending
RECURSIVE SortByCountDesc(_)
SortByCountDesc(rs) ==
    IF rs = <<>> THEN <<>>
    ELSE LET top == CHOOSE i \in 1..Len(rs) :
                        /\ \A j \in 1..Len(rs) : rs[j].count <= rs[i].count
                        /\ \A j \in 1..(i - 1) : rs[j].count < rs[i].count
             rest == [j \in 1..(Len(rs) - 1) |-> IF j < top THEN rs[j] ELSE rs[j + 1]]
         IN  <<rs[top]>> \o SortByCountDesc(rest)

\* value_counts with dropna=False
value_countsKeepNaN(series) ==
    LET vals == unique(series)
    IN  SortByCountDesc([i \in 1..Len(vals) |->
                            [value |-> vals[i], count |-> CountOf(series, vals[i])]])
\* Series.value_counts(): one [value, count] row per distinct value, NaN
\* dropped (dropna=True), most frequent first, ties in order of appearance
value_counts(series) ==
    LET vals == unique(dropna(series))
    IN  SortByCountDesc([i \in 1..Len(vals) |->
                            [value |-> vals[i], count |-> CountOf(series, vals[i])]])

\* Series.sort_index() of a value_counts result: rows ascending by value
sort_index(rs) ==
    LET keys == SortCells({rs[i].value : i \in 1..Len(rs)})
    IN  [i \in 1..Len(keys) |-> CHOOSE r \in Range(rs) : r.value = keys[i]]

\* Series.nunique(): number of distinct values, NaN not counted
nunique(series) == Cardinality(Range(dropna(series)))

\* <<a1, a2>> before <<b1, b2>> in the order groupby sorts two keys
PairLess(a, b) == CellLess(a[1], b[1]) \/ (a[1] = b[1] /\ CellLess(a[2], b[2]))

RECURSIVE SortPairs(_)
SortPairs(ps) ==
    IF ps = {} THEN <<>>
    ELSE LET m == CHOOSE x \in ps : \A y \in ps \ {x} : PairLess(x, y)
         IN  <<m>> \o SortPairs(ps \ {m})

\* df.groupby([keyA, keyB]).size().reset_index(name='count'): one row
\* [a, b, count] per pair of key values that occurs, rows with a NaN key
\* dropped, sorted by (a, b)
GroupBySize(t, keyA, keyB) ==
    LET n == Len(t.rows)
        both == {i \in 1..n : ~isna(t.rows[i][keyA]) /\ ~isna(t.rows[i][keyB])}
        pairs == SortPairs({<<t.rows[i][keyA], t.rows[i][keyB]>> : i \in both})
    IN  [k \in 1..Len(pairs) |->
            [a |-> pairs[k][1], b |-> pairs[k][2],
             count |-> Cardinality({i \in both : /\ t.rows[i][keyA] = pairs[k][1]
                                                  /\ t.rows[i][keyB] = pairs[k][2]})]]

\* grouped.pivot(index=a, columns=b, values='count'): the grid over the a and
\* b values of the rows, NaN where the pair has no row
pivot(grouped) ==
    LET index == SortCells({grouped[i].a : i \in 1..Len(grouped)})
        columns == SortCells({grouped[i].b : i \in 1..Len(grouped)})
    IN  [index |-> index, columns |-> columns,
         values |-> [p \in Range(index) \X Range(columns) |->
                        IF \E r \in Range(grouped) : r.a = p[1] /\ r.b = p[2]
                        THEN Num((CHOOSE r \in Range(grouped) : r.a = p[1] /\ r.b = p[2]).count)
                        ELSE NaN]]

\* the pivot table left unfilled
fillnaSkipped(pv, v) == pv
\* DataFrame.fillna(v)
fillna(pv, v) ==
    [pv EXCEPT !.values = [p \in DOMAIN pv.values |->
                              IF isna(pv.values[p]) THEN Num(v) ELSE pv.values[p]]]

\* sum of a sequence of numeric cells, as a fraction <<n, d>>
RECURSIVE SumCells(_)
SumCells(q) ==
    IF q = <<>> THEN <<0, 1>>
    ELSE LET r == SumCells(Tail(q))
         IN  <<Head(q).n * r[2] + r[1] * Head(q).d, Head(q).d * r[2]>>

\* a mean that divides by the length of the column, NaN cells included
meanOverAll(series) ==
    LET xs == dropna(series)
        sum == SumCells(xs)
    IN  IF xs = <<>> THEN NaN ELSE Frac(sum[1], sum[2] * Len(series))
\* Series.mean() of a numeric column: NaN cells are skipped (skipna=True);
\* NaN when no cell is left
mean(series) ==
    LET xs == dropna(series)
        sum == SumCells(xs)
    IN  IF xs = <<>> THEN NaN ELSE Frac(sum[1], sum[2] * Len(xs))

\* (x == v).mean(): the fraction of cells equal to v (a NaN cell is not equal)
meanEquals(series, v) == Frac(CountOf(series, v), Len(series))

\* Series.map({'yes': 1, 'no': 0}): a cell that is no key of the dict gives NaN
mapYesNo(series) ==
    [i \in 1..Len(series) |->
        IF series[i] = S("yes") THEN Num(1)
        ELSE IF series[i] = S("no") THEN Num(0)
        ELSE NaN]

\* df[c] = series
SetCol(t, c, series) ==
    [t EXCEPT !.rows = [i \in 1..Len(t.rows) |-> [t.rows[i] EXCEPT ![c] = series[i]]]]

\* the rows of the group of key value k: df.groupby(key) drops NaN keys
GroupRows(t, key, k) == SelectSeq(t.rows, LAMBDA r : r[key] = k)

\* the sorted group keys of df.groupby(key)
GroupKeys(t, key) == SortCells(Range(dropna(Col(t, key))))

---------------------------------------------------------------------------
(* The chart functions.  Each is an operator from the module-level table   *)
(* to [df, exc, ret]: the table it leaves, the exception it raises         *)
(* ("none" if it returns) and the figure(s) it returns.  A figure is       *)
(* [kind, data], data being the aggregated rows or traces it is built from.*)

NoFig == [kind |-> "none", data |-> <<>>]

Returns(t, fig) == [df |-> t, exc |-> "none", ret |-> fig]
Raises(t, e) == [df |-> t, exc |-> e, ret |-> NoFig]

\* the columns of cs the table lacks
Lacks(t, cs) == {c \in cs : ~HasCol(t, c)}

\* the rows of the table cut down to the columns cs (what plotly express
\* takes from the data frame it is given)
Project(t, cs) == [i \in 1..Len(t.rows) |-> [c \in cs |-> t.rows[i][c]]]

plot_target_distribution(t) ==
    IF ~HasCol(t, "NObeyesdad") THEN Raises(t, "KeyError")
    ELSE LET category_counts == sort_index(value_counts(Col(t, "NObeyesdad")))
         IN  Returns(t, [kind |-> "bar", data |-> category_counts])

plot_faf_stacked(t) ==
    IF Lacks(t, {"NObeyesdad", "FAF"}) # {} THEN Raises(t, "KeyError")
    ELSE LET faf_distribution == GroupBySize(t, "NObeyesdad", "FAF")
         IN  Returns(t, [kind |-> "bar", data |-> faf_distribution])

plot_categorical_features(t) ==
    LET categorical_features == SelectExclude(t)
    IN  Returns(t, [k \in 1..Len(categorical_features) |->
                      [kind |-> "bar", feature |-> categorical_features[k],
                       data |-> value_counts(Col(t, categorical_features[k]))]])

plot_numerical_features(t) ==
    LET numerical_features == SelectInclude(t)
    IN  Returns(t, [k \in 1..Len(numerical_features) |->
                      [kind |-> "histogram+box", feature |-> numerical_features[k],
                       data |-> Col(t, numerical_features[k])]])

\* the go.Bar traces of one subplot: one per column of the pivot table
BarTraces(pv, idx, num_cols) ==
    [i \in 1..Len(pv.columns) |->
        [name |-> pv.columns[i],
         x |-> pv.index,
         y |-> [j \in 1..Len(pv.index) |-> pv.values[<<pv.index[j], pv.columns[i]>>]],
         row |-> (idx \div num_cols) + 1,
         col |-> (idx % num_cols) + 1,
         showlegend |-> (idx = 0)]]

RECURSIVE Concat(_)
Concat(qs) == IF qs = <<>> THEN <<>> ELSE Head(qs) \o Concat(Tail(qs))

plot_categorical_features_target(t, target_column, num_cols) ==
    LET categorical_features == Drop(SelectExclude(t), target_column)
        num_rows == (Len(categorical_features) + num_cols - 1) \div num_cols
    IN  IF num_rows = 0 THEN Raises(t, "ValueError")
        ELSE IF ~HasCol(t, target_column) THEN Raises(t, "KeyError")
        ELSE Returns(t,
                [kind |-> "subplots",
                 data |-> Concat([k \in 1..Len(categorical_features) |->
                            BarTraces(fillna(pivot(GroupBySize(t, target_column,
                                                       categorical_features[k])), 0),
                                      k - 1, num_cols)])])

\* gaussian_kde and np are not imported: the first group with more than one
\* value raises NameError; with no such group the figure has no trace
plot_numerical_features_target(t, target_column, num_cols) ==
    LET numerical_features == Drop(SelectInclude(t), target_column)
        num_rows == (Len(numerical_features) + num_cols - 1) \div num_cols
        targets == unique(Col(t, target_column))
        data(target, feature) ==
            dropna([i \in 1..Len(GroupRows(t, target_column, target)) |->
                       GroupRows(t, target_column, target)[i][feature]])
    IN  IF num_rows = 0 THEN Raises(t, "ValueError")
        ELSE IF ~HasCol(t, target_column) THEN Raises(t, "KeyError")
        ELSE IF \E f \in Range(numerical_features), g \in Range(targets) :
                    ~isna(g) /\ Len(data(g, f)) > 1
             THEN Raises(t, "NameError")
        ELSE Returns(t, [kind |-> "subplots", data |-> <<>>])

plot_age_weight_relationship(t) ==
    LET cs == {"Age", "Weight", "NObeyesdad", "Height", "Gender"}
    IN  IF Lacks(t, cs) # {} THEN Raises(t, "ValueError")
        ELSE Returns(t, [kind |-> "scatter", data |-> Project(t, cs)])

create_funnel_chart(t) ==
    IF Lacks(t, {"NObeyesdad", "Gender"}) # {} THEN Raises(t, "KeyError")
    ELSE LET funnel_df == GroupBySize(t, "NObeyesdad", "Gender")
         IN  Returns(t, [kind |-> "funnel", data |-> funnel_df])

create_sunburst_chart(t) ==
    LET cs == {"Gender", "family_history_with_overweight", "NObeyesdad"}
    IN  IF Lacks(t, cs) # {} THEN Raises(t, "ValueError")
        ELSE Returns(t, [kind |-> "sunburst", data |-> Project(t, cs)])

\* df.groupby('NObeyesdad').agg({'SMOKE': 'mean', 'CALC': ...}).reset_index()
smoke_alc_df(t) ==
    LET keys == GroupKeys(t, "NObeyesdad")
    IN  [k \in 1..Len(keys) |->
            LET g == [columns |-> t.columns, rows |-> GroupRows(t, "NObeyesdad", keys[k])]
            IN  [NObeyesdad |-> keys[k],
                 SMOKE |-> mean(Col(g, "SMOKE")),
                 CALC |-> meanEquals(Col(g, "CALC"), S("Frequently"))]]

\* line 230 assigns the recoded column to the module-level df before the
\* aggregation, so the table is changed even when the aggregation raises
create_grouped_bar(t) ==
    IF ~HasCol(t, "SMOKE") THEN Raises(t, "KeyError")
    ELSE LET recoded == SetCol(t, "SMOKE", mapYesNo(Col(t, "SMOKE")))
         IN  IF Lacks(t, {"NObeyesdad", "CALC"}) # {} THEN Raises(recoded, "KeyError")
             ELSE LET rows == smoke_alc_df(recoded)
                  IN  Returns(recoded,
                         [kind |-> "bar",
                          data |-> << [name |-> "Smokers",
                                       x |-> [i \in 1..Len(rows) |-> rows[i].NObeyesdad],
                                       y |-> [i \in 1..Len(rows) |-> rows[i].SMOKE]],
                                      [name |-> "Frequent Alcohol Consumers",
                                       x |-> [i \in 1..Len(rows) |-> rows[i].NObeyesdad],
                                       y |-> [i \in 1..Len(rows) |-> rows[i].CALC]] >>])

create_water_box(t) ==
    LET cs == {"NObeyesdad", "CH2O"}
    IN  IF Lacks(t, cs) # {} THEN Raises(t, "ValueError")
        ELSE Returns(t, [kind |-> "box", data |-> Project(t, cs)])

---------------------------------------------------------------------------
(* Input: the CSV file *)

\* one record of the data set; the columns no chart aggregates are constant
Record(gender, smoke, faf, calc, level) ==
    [Gender |-> gender, Age |-> Num(21), Height |-> Num(162), Weight |-> Num(64),
     family_history_with_overweight |-> S("yes"), SMOKE |-> smoke, CH2O |-> Num(2),
     FAF |-> faf, CALC |-> calc, NObeyesdad |-> level]

Levels == {S("Normal_Weight"), S("Obesity_Type_I"), NaN}

\* the base record, changed in the columns given by the function ch
Base == Record(S("Female"), S("no"), Num(0), S("no"), S("Normal_Weight"))
With(r, ch) == [c \in DOMAIN r |-> IF c \in DOMAIN ch THEN ch[c] ELSE r[c]]

\* the records of the model: the obesity level varies (and may be missing),
\* and at most one of the smoking, alcohol, gender and activity columns
\* departs from the base record
Records ==
    {With(With(Base, ch), [NObeyesdad |-> level]) :
        ch \in {[SMOKE |-> S("no")], [SMOKE |-> S("yes")], [SMOKE |-> NaN],
                [CALC |-> S("Frequently")], [Gender |-> S("Male")], [FAF |-> Num(1)]},
        level \in Levels}

RECURSIVE SeqsUpTo(_, _)
\* the non-empty sequences over set of at most n elements
SeqsUpTo(set, n) ==
    IF n = 0 THEN {}
    ELSE LET shorter == SeqsUpTo(set, n - 1)
         IN  {<<x>> : x \in set} \cup shorter \cup {Append(q, x) : q \in shorter, x \in set}

\* the well-formed tables of at most n rows
Tables(n) == {[columns |-> ExpectedColumns, rows |-> rows] : rows \in SeqsUpTo(Records, n)}

\* the table without column c
DropColumn(t, c) ==
    [columns |-> Drop(t.columns, c),
     rows |-> [i \in 1..Len(t.rows) |-> [x \in DOMAIN t.rows[i] \ {c} |-> t.rows[i][x]]]]

MissingFile == [kind |-> "missing", table |-> NoTable]
MalformedFile == [kind |-> "malformed", table |-> NoTable]
CsvFile(t) == [kind |-> "csv", table |-> t]

\* the files a session may start with: none, an unparsable one, a well-formed
\* one, or one whose header lacks one of the columns the script names
Files ==
    {MissingFile, MalformedFile}
    \cup {CsvFile(t) : t \in Tables(MaxFileRows)}
    \cup {CsvFile(DropColumn(t, c)) : t \in Tables(MaxFileRows), c \in Range(ExpectedColumns)}

---------------------------------------------------------------------------
(* The loader *)

\* pd.read_csv: raises on a missing or unparsable file, else returns the
\* table of the file whatever its header is
read_csv(f) ==
    IF f.kind = "missing" THEN [exc |-> "FileNotFoundError", table |-> NoTable]
    ELSE IF f.kind = "malformed" THEN [exc |-> "ParserError", table |-> NoTable]
    ELSE [exc |-> "none", table |-> f.table]

\* load_data without the decorator: every call reads the file
load_dataUncached(c, f) ==
    LET got == read_csv(f)
    IN  [exc |-> got.exc, table |-> got.table, cache |-> c,
         read |-> IF got.exc = "none" THEN 1 ELSE 0]
\* @st.cache_data load_data(): a hit returns a copy of the stored table;
\* a miss runs the body and stores what it returns; an exception stores nothing
load_data(c, f) ==
    IF c # NoTable THEN [exc |-> "none", table |-> c, cache |-> c, read |-> 0]
    ELSE LET got == read_csv(f)
         IN  [exc |-> got.exc, table |-> got.table,
              cache |-> IF got.exc = "none" THEN got.table ELSE c,
              read |-> IF got.exc = "none" THEN 1 ELSE 0]

---------------------------------------------------------------------------
(* The script: line 21, then the layout statements of lines 272-330 *)

Layout ==
    <<"metric_total_samples", "metric_unique_categories", "metric_average_age",
      "metric_average_weight", "plot_target_distribution", "plot_faf_stacked",
      "create_grouped_bar", "create_water_box", "create_funnel_chart",
      "create_sunburst_chart", "plot_age_weight_relationship",
      "plot_categorical_features", "plot_numerical_features",
      "plot_categorical_features_target", "plot_numerical_features_target">>

NoResult == [exc |-> "none", ret |-> NoFig]

\* st.metric(label, value): the value shown
Metric(t, value) == [df |-> t, exc |-> "none", ret |-> [kind |-> "metric", data |-> value]]

\* f"{x:.1f}": x in tenths, rounded half to even
Format1f(x) ==
    LET q == (10 * x.n) \div x.d
        r == (10 * x.n) % x.d
    IN  IF 2 * r > x.d \/ (2 * r = x.d /\ q % 2 = 1) THEN q + 1 ELSE q

\* st.metric("Average ...", f"{df[c].mean():.1f} ...")
MeanMetric(t, c) ==
    IF ~HasCol(t, c) THEN Raises(t, "KeyError")
    ELSE IF Dtype(Col(t, c)) = "object" THEN Raises(t, "TypeError")
    ELSE IF isna(mean(Col(t, c))) THEN Metric(t, "nan")
    ELSE Metric(t, Format1f(mean(Col(t, c))))

\* one layout statement, run on the module-level table: [df, exc, ret, fn],
\* fn being the chart function it calls ("" if it calls none)
LayoutStatement(name, t) ==
    LET Called(out) == [df |-> out.df, exc |-> out.exc, ret |-> out.ret, fn |-> name]
        Plain(out) == [df |-> out.df, exc |-> out.exc, ret |-> out.ret, fn |-> ""]
    IN  CASE name = "metric_total_samples" -> Plain(Metric(t, Len(t.rows)))
          [] name = "metric_unique_categories" ->
                Plain(IF HasCol(t, "NObeyesdad")
                      THEN Metric(t, nunique(Col(t, "NObeyesdad")))
                      ELSE Raises(t, "KeyError"))
          [] name = "metric_average_age" -> Plain(MeanMetric(t, "Age"))
          [] name = "metric_average_weight" -> Plain(MeanMetric(t, "Weight"))
          [] name = "plot_target_distribution" -> Called(plot_target_distribution(t))
          [] name = "plot_faf_stacked" -> Called(plot_faf_stacked(t))
          [] name = "create_grouped_bar" -> Called(create_grouped_bar(t))
          \* lines 296-297: col1 = st.columns(1) is a list, and "with col1:"
          \* raises before create_water_box is called
          [] name = "create_water_box" -> Plain(Raises(t, "TypeError"))
          [] name = "create_funnel_chart" -> Called(create_funnel_chart(t))
          [] name = "create_sunburst_chart" -> Called(create_sunburst_chart(t))
          [] name = "plot_age_weight_relationship" -> Called(plot_age_weight_relationship(t))
          [] name = "plot_categorical_features" -> Called(plot_categorical_features(t))
          [] name = "plot_numerical_features" -> Called(plot_numerical_features(t))
          \* lines 325 and 329 call the two functions without their
          \* parameter df: TypeError
          [] name = "plot_categorical_features_target" -> Called(Raises(t, "TypeError"))
          [] name = "plot_numerical_features_target" -> Called(Raises(t, "TypeError"))

\* the run is over: the script reached its end or an exception stopped it
RunEnded == error # "none" \/ pc = Len(Layout) + 1

Init ==
    /\ file \in Files
    /\ cache = NoTable
    /\ reads = 0
    /\ firstLoaded = NoTable
    /\ runs = 1
    /\ df = NoTable
    /\ pc = 0
    /\ rendered = <<>>
    /\ error = "none"
    /\ call = ""
    /\ result = NoResult

\* line 21: df = load_data()
LoadData ==
    /\ pc = 0
    /\ error = "none"
    /\ LET got == load_data(cache, file)
       IN  /\ cache' = got.cache
           /\ reads' = reads + got.read
           /\ df' = got.table
           /\ firstLoaded' = IF firstLoaded = NoTable THEN got.table ELSE firstLoaded
           /\ error' = got.exc
           /\ pc' = IF got.exc = "none" THEN 1 ELSE pc
    /\ UNCHANGED <<file, runs, rendered, call, result>>

\* the next layout statement; an exception it raises ends the run
RenderElement ==
    /\ pc \in 1..Len(Layout)
    /\ error = "none"
    /\ LET out == LayoutStatement(Layout[pc], df)
       IN  /\ df' = out.df
           /\ error' = out.exc
           /\ pc' = IF out.exc = "none" THEN pc + 1 ELSE pc
           /\ rendered' = IF out.exc = "none" THEN Append(rendered, Layout[pc]) ELSE rendered
           /\ call' = IF out.fn = "" THEN call ELSE out.fn
           /\ result' = IF out.fn = "" THEN result ELSE [exc |-> out.exc, ret |-> out.ret]
    /\ UNCHANGED <<file, cache, reads, firstLoaded, runs>>

\* a user interaction: Streamlit executes the script again from the top
Rerun ==
    /\ RunEnded
    /\ runs < MaxRuns
    /\ runs' = runs + 1
    /\ pc' = 0
    /\ df' = NoTable
    /\ rendered' = <<>>
    /\ error' = "none"
    /\ call' = ""
    /\ result' = NoResult
    /\ UNCHANGED <<file, cache, reads, firstLoaded>>

\* the file is deleted, damaged or grows by a record; the script can see a
\* change only at line 21, so it is taken there
FileChange ==
    /\ pc = 0
    /\ error = "none"
    /\ file.kind = "csv"
    /\ \/ file' \in {MissingFile, MalformedFile}
       \/ /\ Len(file.table.rows) < MaxFileRows
          /\ \E r \in Records :
                file' = CsvFile([file.table EXCEPT !.rows =
                            Append(@, [c \in Range(file.table.columns) |-> r[c]])])
    /\ UNCHANGED <<cache, reads, firstLoaded, runs, df, pc, rendered, error, call, result>>

Next == LoadData \/ RenderElement \/ Rerun \/ FileChange

Spec == Init /\ [][Next]_vars

---------------------------------------------------------------------------
(* The chart functions on their own: a table has been loaded into the      *)
(* module-level df, and the functions are called in any order.             *)

InitFn ==
    /\ df \in Tables(MaxRows)
    /\ file = CsvFile(df)
    /\ cache = df
    /\ reads = 1
    /\ firstLoaded = df
    /\ runs = 1
    /\ pc = 1
    /\ rendered = <<>>
    /\ error = "none"
    /\ call = ""
    /\ result = NoResult

\* a call of the chart function fn, out being what it does on df
Calls(fn, out) ==
    /\ df' = out.df
    /\ call' = fn
    /\ result' = [exc |-> out.exc, ret |-> out.ret]
    /\ UNCHANGED <<file, cache, reads, firstLoaded, runs, pc, rendered, error>>

Call_plot_target_distribution ==
    Calls("plot_target_distribution", plot_target_distribution(df))

Call_plot_faf_stacked ==
    Calls("plot_faf_stacked", plot_faf_stacked(df))

Call_plot_categorical_features ==
    Calls("plot_categorical_features", plot_categorical_features(df))

Call_plot_numerical_features ==
    Calls("plot_numerical_features", plot_numerical_features(df))

\* called with the table and the defaults target_column='NObeyesdad', num_cols=3
Call_plot_categorical_features_target ==
    Calls("plot_categorical_features_target",
          plot_categorical_features_target(df, "NObeyesdad", 3))

\* called with the table and the defaults target_column='NObeyesdad', num_cols=2
Call_plot_numerical_features_target ==
    Calls("plot_numerical_features_target",
          plot_numerical_features_target(df, "NObeyesdad", 2))

Call_plot_age_weight_relationship ==
    Calls("plot_age_weight_relationship", plot_age_weight_relationship(df))

Call_create_funnel_chart ==
    Calls("create_funnel_chart", create_funnel_chart(df))

Call_create_sunburst_chart ==
    Calls("create_sunburst_chart", create_sunburst_chart(df))

Call_create_grouped_bar ==
    Calls("create_grouped_bar", create_grouped_bar(df))

Call_create_water_box ==
    Calls("create_water_box", create_water_box(df))

NextFn ==
    \/ Call_plot_target_distribution
    \/ Call_plot_faf_stacked
    \/ Call_plot_categorical_features
    \/ Call_plot_numerical_features
    \/ Call_plot_categorical_features_target
    \/ Call_plot_numerical_features_target
    \/ Call_plot_age_weight_relationship
    \/ Call_create_funnel_chart
    \/ Call_create_sunburst_chart
    \/ Call_create_grouped_bar
    \/ Call_create_water_box

SpecFn == InitFn /\ [][NextFn]_vars

---------------------------------------------------------------------------
(* Properties of the script run (Spec) *)

\* the table has every column the script names
WellFormed(t) == t # NoTable /\ Lacks(t, Range(ExpectedColumns)) = {}

\* C1 - panel isolation: when a layout statement has failed, every layout
\* statement after it has still been rendered once the run is over.
PanelIsolation ==
    (RunEnded /\ error # "none" /\ pc >= 1) =>
        \A i \in (pc + 1)..Len(Layout) : Layout[i] \in Range(rendered)

\* C2 - the loaded table is read-only: at every point of a run the
\* module-level table equals the table load_data returned (the cached one).
TableReadOnly == (pc >= 1) => df = cache

LoadFailuresAtStartup == (pc >= 1) => WellFormed(df)

\* C8 - panel catalog: a run on a well-formed table that is over has
\* rendered every element of the layout, in the order of the layout.
PanelCatalogComplete == (RunEnded /\ pc >= 1 /\ WellFormed(df)) => rendered = Layout

---------------------------------------------------------------------------
(* Properties of the chart functions (SpecFn) *)

Returned(fn) == call = fn /\ result.exc = "none"

\* the rows of table t whose record satisfies P
RowsWhere(t, P(_)) == {i \in 1..Len(t.rows) : P(t.rows[i])}

\* the columns of the table that hold text
TextColumns(t) == {c \in Range(t.columns) : \E i \in 1..Len(t.rows) : t.rows[i][c].t = "str"}

\* the values of a column that are not missing
Present(series) == {series[i] : i \in {j \in 1..Len(series) : series[j].t # "nan"}}
PresentCount(series) == Cardinality({j \in 1..Len(series) : series[j].t # "nan"})

\* the [value, count] rows sum to total and hold each value of the column once
CountsCover(rows, series, total) ==
    /\ SumSeq([k \in 1..Len(rows) |-> rows[k].count]) = total
    /\ \A v \in Present(series) : Cardinality({k \in 1..Len(rows) : rows[k].value = v}) = 1

\* the counts of plot_target_distribution and of every figure of
\* plot_categorical_features cover their column with the given total
CountsByCategory(total(_)) ==
    /\ Returned("plot_target_distribution") =>
          CountsCover(result.ret.data, Col(df, "NObeyesdad"), total(Col(df, "NObeyesdad")))
    /\ Returned("plot_categorical_features") =>
          /\ {result.ret[k].feature : k \in 1..Len(result.ret)} = TextColumns(df)
          /\ \A k \in 1..Len(result.ret) :
                CountsCover(result.ret[k].data, Col(df, result.ret[k].feature),
                            total(Col(df, result.ret[k].feature)))

\* C6 as stated - counts by category: the counts of a column sum to the
\* row count of the table, missing values or not, and every value that
\* occurs in the column has exactly one output row.
CountsSumToRowCount == CountsByCategory(Len)

\* C6 as amended - the counts of a column sum to the number of rows whose
\* value in the column is not missing (the row count when none is), and
\* every value that occurs in the column has exactly one output row.
CountsSumToPresentRows == CountsByCategory(PresentCount)

\* the label distribution of a table of two records, one without a label
CountsWitness ==
    /\ Returned("plot_target_distribution")
    /\ Len(df.rows) = 2
    /\ Len(result.ret.data) = 1
    /\ result.ret.data[1].count = 1
    /\ \E i \in 1..2 : isna(df.rows[i].NObeyesdad)

\* a proportion: a number in [0, 1]
InUnit(c) == c.t = "num" /\ 0 <= c.n /\ c.n <= c.d

\* the two traces of create_grouped_bar hold one bar per obesity level of the
\* table t it was called on, the smokers' bar being smokers(group) and the
\* drinkers' the share of CALC = 'Frequently' in the group
GroupedBars(t, traces, smokers(_, _)) ==
    LET levels == Present(Col(t, "NObeyesdad"))
    IN  /\ Len(traces) = 2
        /\ \A b \in 1..2 :
              /\ Len(traces[b].x) = Cardinality(levels)
              /\ Range(traces[b].x) = levels
              /\ Len(traces[b].y) = Len(traces[b].x)
        /\ \A i \in 1..Len(traces[1].x) :
              LET group == RowsWhere(t, LAMBDA r : r.NObeyesdad = traces[1].x[i])
                  drinkers == {j \in group : t.rows[j].CALC = S("Frequently")}
              IN  /\ traces[1].y[i] = smokers(t, group)
                  /\ traces[2].x[i] = traces[1].x[i]
                  /\ traces[2].y[i] = Frac(Cardinality(drinkers), Cardinality(group))
                  /\ InUnit(traces[2].y[i])

\* (rows of the group with SMOKE = 'yes') / (rows of the group)
SmokersOfAll(t, group) ==
    Frac(Cardinality({j \in group : t.rows[j].SMOKE = S("yes")}), Cardinality(group))

\* (rows with SMOKE = 'yes') / (rows with SMOKE 'yes' or 'no'), NaN if none
SmokersOfKnown(t, group) ==
    LET known == {j \in group : t.rows[j].SMOKE \in {S("yes"), S("no")}}
    IN  IF known = {} THEN NaN
        ELSE Frac(Cardinality({j \in known : t.rows[j].SMOKE = S("yes")}), Cardinality(known))

\* C7 as stated - proportion per group: on every table create_grouped_bar
\* gives one row per obesity level present, the smoker proportion being
\* (rows with SMOKE = 'yes') / (rows of the group) and the alcohol proportion
\* (rows with CALC = 'Frequently') / (rows of the group), both in [0, 1].
ProportionPerGroup ==
    [][(call' = "create_grouped_bar" /\ result'.exc = "none") =>
          /\ GroupedBars(df, result'.ret.data, SmokersOfAll)
          /\ \A i \in 1..Len(result'.ret.data[1].y) : InUnit(result'.ret.data[1].y[i])]_vars

\* C7 as amended - one row per obesity level present; the alcohol proportion
\* is as stated; the smoker proportion is (rows with SMOKE = 'yes') / (rows
\* whose SMOKE is 'yes' or 'no'), in [0, 1], and is NaN for a group that has
\* no such row (a group whose SMOKE cells are all missing, and every group
\* once an earlier call has recoded the column).
ProportionOfKnownPerGroup ==
    [][(call' = "create_grouped_bar" /\ result'.exc = "none") =>
          /\ GroupedBars(df, result'.ret.data, SmokersOfKnown)
          /\ \A i \in 1..Len(result'.ret.data[1].y) :
                isna(result'.ret.data[1].y[i]) \/ InUnit(result'.ret.data[1].y[i])]_vars

\* the first call on a table with one obesity level, a smoker and a record
\* without smoking status: the smokers' bar is 1, not 1/2
ProportionWitness ==
    /\ Returned("create_grouped_bar")
    /\ Len(firstLoaded.rows) = 2
    /\ df = SetCol(firstLoaded, "SMOKE", mapYesNo(Col(firstLoaded, "SMOKE")))
    /\ \E i \in 1..2 : isna(firstLoaded.rows[i].SMOKE)
    /\ result.ret.data[1].y = <<Num(1)>>
    /\ result.ret.data[2].y = <<Frac(0, 1)>>


\* C3 - idempotent recoding: a call of create_grouped_bar that directly
\* follows another leaves the table as the first left it and returns the
\* same rows in the same order.
RecodingIdempotent ==
    [][(call = "create_grouped_bar" /\ call' = "create_grouped_bar") =>
          (df' = df /\ result' = result)]_vars

\* the [a, b, count] rows hold exactly the pairs of (keyA, keyB) values that
\* occur in the table, each once with the number of its rows
PairsThatOccur(rows, t, keyA, keyB) ==
    LET both == RowsWhere(t, LAMBDA r : r[keyA].t # "nan" /\ r[keyB].t # "nan")
    IN  /\ \A k \in 1..Len(rows) :
              /\ rows[k].count >= 1
              /\ rows[k].count = Cardinality({i \in both : /\ t.rows[i][keyA] = rows[k].a
                                                          /\ t.rows[i][keyB] = rows[k].b})
        /\ \A i \in both :
              Cardinality({k \in 1..Len(rows) : /\ rows[k].a = t.rows[i][keyA]
                                                 /\ rows[k].b = t.rows[i][keyB]}) = 1
        /\ SumSeq([k \in 1..Len(rows) |-> rows[k].count]) = Cardinality(both)

\* the traces of one subplot are the dense grid of the obesity levels and the
\* feature values seen in the rows that have both: one trace per value, one
\* bar per level, 0 for a pair that does not occur
DenseGrid(traces, t, feature) ==
    LET both == RowsWhere(t, LAMBDA r : r.NObeyesdad.t # "nan" /\ r[feature].t # "nan")
        levels == {t.rows[i].NObeyesdad : i \in both}
        values == {t.rows[i][feature] : i \in both}
    IN  /\ Len(traces) = Cardinality(values)
        /\ {traces[k].name : k \in 1..Len(traces)} = values
        /\ \A k \in 1..Len(traces) :
              /\ Len(traces[k].x) = Cardinality(levels)
              /\ Range(traces[k].x) = levels
              /\ \A j \in 1..Len(traces[k].x) :
                    traces[k].y[j] =
                        Num(Cardinality({i \in both : /\ t.rows[i].NObeyesdad = traces[k].x[j]
                                                      /\ t.rows[i][feature] = traces[k].name}))
        /\ SumSeq([k \in 1..Len(traces) |->
                      SumSeq([j \in 1..Len(traces[k].y) |-> traces[k].y[j].n])])
           = Cardinality(both)

\* the text columns other than the obesity level, in header order
TextFeatures(t) == SelectSeq(t.columns, LAMBDA c : c \in TextColumns(t) /\ c # "NObeyesdad")

\* C9 - cross-tabulation zero policy: plot_faf_stacked and
\* create_funnel_chart give one row, with a count of at least 1, per pair
\* that occurs and none for a pair that does not; the subplots of
\* plot_categorical_features_target are dense grids over the observed
\* values (those of the rows that have both keys), 0 where a pair does not
\* occur; either way the counts sum to the number of rows with both keys.
CrossTabZeroPolicy ==
    /\ Returned("plot_faf_stacked") => PairsThatOccur(result.ret.data, df, "NObeyesdad", "FAF")
    /\ Returned("create_funnel_chart") =>
          PairsThatOccur(result.ret.data, df, "NObeyesdad", "Gender")
    /\ Returned("plot_categorical_features_target") =>
          LET features == TextFeatures(df)
              at(k) == SelectSeq(result.ret.data,
                                 LAMBDA tr : /\ tr.row = ((k - 1) \div 3) + 1
                                             /\ tr.col = ((k - 1) % 3) + 1)
          IN  /\ \A k \in 1..Len(features) : DenseGrid(at(k), df, features[k])
              /\ \A i \in 1..Len(result.ret.data) :
                    \E k \in 1..Len(features) : result.ret.data[i] \in Range(at(k))

\* plot_categorical_features_target has filled a cell of a grid with 0
CrossTabWitness ==
    /\ Returned("plot_categorical_features_target")
    /\ \E i \in 1..Len(result.ret.data) :
          \E j \in 1..Len(result.ret.data[i].y) : result.ret.data[i].y[j] = Num(0)

\* the features of a list of figures
FeaturesOf(figs) == [k \in 1..Len(figs) |-> figs[k].feature]

\* C10 - stable classification: every column is categorical or numeric and
\* not both, and the columns plot_categorical_features and
\* plot_numerical_features work on are those they work on when called on the
\* table as loaded, whatever was called before.
ClassificationStable ==
    /\ Range(SelectExclude(df)) \cup Range(SelectInclude(df)) = Range(df.columns)
    /\ Range(SelectExclude(df)) \cap Range(SelectInclude(df)) = {}
    /\ Returned("plot_categorical_features") =>
          FeaturesOf(result.ret) = FeaturesOf(plot_categorical_features(firstLoaded).ret)
    /\ Returned("plot_numerical_features") =>
          FeaturesOf(result.ret) = FeaturesOf(plot_numerical_features(firstLoaded).ret)

=============================================================================
